---- MODULE Spec2Model ----
(***************************************************************************)
(* A model of the Econt client (src/econt/api.py): the transport primitive *)
(* Econt.request and the facade operations built on it.  Every call is a   *)
(* synchronous request/reshape cycle, so every operation is one action;    *)
(* the state records the last call, what the network answered, what the    *)
(* call gave back to its caller, the POSTs it issued and the sessions it   *)
(* opened and closed.                                                      *)
(***************************************************************************)
EXTENDS Integers, Sequences, FiniteSets, TLC

VARIABLES client, call, net, outcome, posts, opened, closed

vars == <<client, call, net, outcome, posts, opened, closed>>

(***************************************************************************)
(* Python values.  A value is a tagged record: None, a str, an int, a      *)
(* dict (an ordered sequence of <<key, value>> pairs, as OrderedDict), a   *)
(* list, a serialized XML document (bytes), or a raised exception.         *)
(***************************************************************************)
None == [t |-> "none", v |-> ""]
Str(s) == [t |-> "str", v |-> s]
PyInt(n) == [t |-> "int", v |-> n]
Dict(kv) == [t |-> "dict", v |-> kv]
List(items) == [t |-> "list", v |-> items]
Exc(name) == [t |-> "exc", v |-> name]

\* dict literals of one and of two entries
D1(k, x) == Dict(<< <<k, x>> >>)
D2(k1, x1, k2, x2) == Dict(<< <<k1, x1>>, <<k2, x2>> >>)

IsExc(x) == x.t = "exc"

\* bool(x)
Truthy(x) ==
    CASE x.t = "none" -> FALSE
      [] x.t = "str" -> x.v # ""
      [] x.t = "int" -> x.v # 0
      [] x.t = "dict" -> Len(x.v) > 0
      [] x.t = "list" -> Len(x.v) > 0
      [] OTHER -> TRUE

\* key in d, for a dict d
HasKey(d, k) == \E i \in 1..Len(d.v) : d.v[i][1] = k

\* d[k], for a dict d holding k
Lookup(d, k) == d.v[CHOOSE i \in 1..Len(d.v) : d.v[i][1] = k][2]

\* x[k] with a str key k: the value, or the exception Python raises
GetItem(x, k) ==
    CASE x.t = "exc" -> x
      [] x.t = "dict" -> IF HasKey(x, k) THEN Lookup(x, k) ELSE Exc("KeyError")
      [] OTHER -> Exc("TypeError")

\* k in x, for a dict or a list x (1 for True, 0 for False)
Contains(x, k) ==
    CASE x.t = "exc" -> x
      [] x.t = "dict" -> IF HasKey(x, k) THEN PyInt(1) ELSE PyInt(0)
      [] x.t = "list" -> IF \E i \in 1..Len(x.v) : x.v[i] = Str(k) THEN PyInt(1) ELSE PyInt(0)
      [] OTHER -> Exc("TypeError")

\* d[k] = val (d.update({k: val})): replaces in place or appends
DictSet(d, k, val) ==
    IF HasKey(d, k)
    THEN Dict([i \in 1..Len(d.v) |-> IF d.v[i][1] = k THEN <<k, val>> ELSE d.v[i]])
    ELSE Dict(Append(d.v, <<k, val>>))

\* del d[k], for a dict d holding k
DictDel(d, k) == Dict(SelectSeq(d.v, LAMBDA p : p[1] # k))

RECURSIVE Concat(_)
Concat(seqs) == IF seqs = <<>> THEN <<>> ELSE Head(seqs) \o Concat(Tail(seqs))

\* str(n) for an int n >= 0, digit by digit
Digit(d) == CASE d = 0 -> "0" [] d = 1 -> "1" [] d = 2 -> "2" [] d = 3 -> "3"
              [] d = 4 -> "4" [] d = 5 -> "5" [] d = 6 -> "6" [] d = 7 -> "7"
              [] d = 8 -> "8" [] d = 9 -> "9"

RECURSIVE IntToStr(_)
IntToStr(n) == IF n < 10 THEN Digit(n) ELSE IntToStr(n \div 10) \o Digit(n % 10)

\* str(x) for a str or an int x
PyStr(x) == IF x.t = "int" THEN Str(IntToStr(x.v)) ELSE x

\* ''.join(items): the concatenation, or TypeError when an item is no str
RECURSIVE JoinStrs(_)
JoinStrs(items) == IF items = <<>> THEN "" ELSE Head(items).v \o JoinStrs(Tail(items))

Join(items) ==
    IF \A i \in 1..Len(items) : items[i].t = "str"
    THEN Str(JoinStrs(items))
    ELSE Exc("TypeError")

\* nested_lookup(key, document): every value stored under key, at any depth,
\* in document order; a matching value is yielded and then searched itself
RECURSIVE nested_lookup(_, _)
nested_lookup(key, document) ==
    CASE document.t = "list" ->
           Concat([i \in 1..Len(document.v) |-> nested_lookup(key, document.v[i])])
      [] document.t = "dict" ->
           Concat([i \in 1..Len(document.v) |->
               (IF document.v[i][1] = key THEN <<document.v[i][2]>> ELSE <<>>)
               \o (IF document.v[i][2].t \in {"dict", "list"}
                   THEN nested_lookup(key, document.v[i][2]) ELSE <<>>)])
      [] OTHER -> <<>>

\* loads(dumps(x)): the value rebuilt from its JSON text
RECURSIVE to_dict(_)
to_dict(x) ==
    CASE x.t = "dict" -> Dict([i \in 1..Len(x.v) |-> <<x.v[i][1], to_dict(x.v[i][2])>>])
      [] x.t = "list" -> List([i \in 1..Len(x.v) |-> to_dict(x.v[i])])
      [] x.t \in {"none", "str", "int"} -> x
      [] OTHER -> Exc("TypeError")

(***************************************************************************)
(* Status codes (StatusCode, documented in Econt.request's docstring).     *)
(***************************************************************************)
STATUS_OK == 0
CONNECTION_ERROR == 1
INVALID_URL_ERROR == 2
EMPTY_URL_ERROR == 3
XML_PARSE_ERROR == 4
ECONT_API_XML_ERROR == 5
UNEXPECTED_ERROR == 6

(***************************************************************************)
(* URLs.  A URL is its text and the parts requests' URL preparation looks  *)
(* at: whether it parses at all, its scheme and its host.                  *)
(***************************************************************************)
Url(text, parses, scheme, host) ==
    [text |-> text, parses |-> parses, scheme |-> scheme, host |-> host]

ECONT_PARCELS_DEMO_URL ==
    Url("http://demo.econt.com/e-econt/xml_parcel_import2.php", TRUE, "http", "demo.econt.com")
ECONT_PARCELS_URL ==
    Url("http://www.econt.com/e-econt/xml_parcel_import2.php", TRUE, "http", "www.econt.com")
ECONT_SERVICE_URL ==
    Url("http://econt.com/e-econt/xml_service_tool.php", TRUE, "http", "econt.com")
ECONT_SERVICE_DEMO_URL ==
    Url("http://demo.econt.com/e-econt/xml_service_tool.php", TRUE, "http", "demo.econt.com")

\* Econt(username, password, demo)
Econt(username, password, demo) ==
    [username |-> username, password |-> password, demo |-> demo,
     service_url |-> IF demo THEN ECONT_SERVICE_DEMO_URL ELSE ECONT_SERVICE_URL,
     parcels_url |-> IF demo THEN ECONT_PARCELS_DEMO_URL ELSE ECONT_PARCELS_URL]

(***************************************************************************)
(* What a call gives back to its caller: a returned envelope or a raised   *)
(* exception; and the record of a call's effects.                          *)
(***************************************************************************)
Envelope(status, message, data) == [status |-> status, message |-> message, data |-> data]
Return(env) == [kind |-> "return", val |-> env]
Raise(exc) == [kind |-> "raise", val |-> exc]

\* a call's result: its outcome, the POSTs it issued, sessions opened and closed
Result(out, ps, o, c) == [out |-> out, posts |-> ps, opened |-> o, closed |-> c]

(***************************************************************************)
(* The network exchange.  net is what the network does with a POST that    *)
(* reaches it: an exception of the HTTP library, or a response body.  A    *)
(* body is well-formed XML (doc is its parse) or not; marker tells whether *)
(* the text holds 'API_ERR'.                                               *)
(***************************************************************************)
\* xml_session.post taking a URL without a scheme for a malformed one
session_post_no_schema(url, xml, n) ==
    CASE ~url.parses -> Exc("InvalidURL")
      [] url.parses /\ url.scheme = "" -> Exc("InvalidURL")
      [] url.parses /\ url.scheme \notin {"", "http", "https"} -> Exc("InvalidSchema")
      [] url.parses /\ url.scheme \in {"http", "https"} /\ url.host = "" -> Exc("InvalidURL")
      [] OTHER -> IF n.k = "response" THEN [t |-> "response", v |-> n.body] ELSE Exc(n.k)

\* xml_session.post(url=url, data=xml): requests prepares the URL, then sends
session_post(url, xml, n) ==
    CASE ~url.parses -> Exc("InvalidURL")
      [] url.parses /\ url.scheme = "" -> Exc("MissingSchema")
      [] url.parses /\ url.scheme \notin {"", "http", "https"} -> Exc("InvalidSchema")
      [] url.parses /\ url.scheme \in {"http", "https"} /\ url.host = "" -> Exc("InvalidURL")
      [] OTHER -> IF n.k = "response" THEN [t |-> "response", v |-> n.body] ELSE Exc(n.k)

\* xmltodict.parse(response_xml.text)
xmltodict_parse(response_xml) ==
    IF response_xml.v.wellformed THEN response_xml.v.doc ELSE Exc("ExpatError")

\* request, lines 110-126: the envelope for a body holding 'API_ERR', or the
\* TypeError of the second join
request_api_error(result) ==
    LET error_message == nested_lookup("error", result)
        joined == Join(error_message)
        nested_message == nested_lookup("message", List(error_message))
        rejoined == Join(nested_message)
    IN  IF ~IsExc(joined)
        THEN Return(Envelope(ECONT_API_XML_ERROR, joined, None))
        ELSE IF ~IsExc(rejoined)
             THEN Return(Envelope(ECONT_API_XML_ERROR, rejoined, None))
             ELSE Raise(rejoined.v)

\* the body of the try statement looking for the marker before it parses
request_try_marker_first(url, xml, n) ==
    LET response_xml == session_post(url, xml, n)
    IN  IF IsExc(response_xml) THEN Raise(response_xml.v)
        ELSE IF response_xml.v.marker
        THEN Return(Envelope(ECONT_API_XML_ERROR, Str(""), None))
        ELSE LET result == xmltodict_parse(response_xml)
             IN  IF IsExc(result) THEN Raise(result.v)
                 ELSE Return(Envelope(STATUS_OK, Str("OK"), result))

\* request, lines 106-130: the body of the try statement; the envelope it
\* assigns to response, or the exception raised in it
request_try(url, xml, n) ==
    LET response_xml == session_post(url, xml, n)
    IN  IF IsExc(response_xml) THEN Raise(response_xml.v)
        ELSE LET result == xmltodict_parse(response_xml)
             IN  IF IsExc(result) THEN Raise(result.v)
                 ELSE IF response_xml.v.marker
                      THEN request_api_error(result)
                      ELSE Return(Envelope(STATUS_OK, Str("OK"), result))

\* the except clauses with the INVALID_URL and EMPTY_URL envelopes exchanged
request_except_swapped(exc) ==
    CASE exc = "InvalidURL" ->
           Return(Envelope(EMPTY_URL_ERROR, Str("Please provide http:// or https://!"), None))
      [] exc = "MissingSchema" ->
           Return(Envelope(INVALID_URL_ERROR, Str("The url you provided is invalid!"), None))
      [] exc = "ConnectionError" ->
           Return(Envelope(CONNECTION_ERROR, Str("There has been a connection error!"), None))
      [] exc = "ExpatError" ->
           Return(Envelope(XML_PARSE_ERROR, Str("XML parsing failed!"), None))
      [] OTHER ->
           Return(Envelope(UNEXPECTED_ERROR, Str("An unexpected error occurred!"), None))

\* the except clauses without the bare except: response is never bound
request_except_no_catch_all(exc) ==
    CASE exc = "InvalidURL" ->
           Return(Envelope(INVALID_URL_ERROR, Str("The url you provided is invalid!"), None))
      [] exc = "MissingSchema" ->
           Return(Envelope(EMPTY_URL_ERROR, Str("Please provide http:// or https://!"), None))
      [] exc = "ConnectionError" ->
           Return(Envelope(CONNECTION_ERROR, Str("There has been a connection error!"), None))
      [] exc = "ExpatError" ->
           Return(Envelope(XML_PARSE_ERROR, Str("XML parsing failed!"), None))
      [] OTHER -> Raise("UnboundLocalError")

\* request, lines 131-155: the except clauses
request_except(exc) ==
    CASE exc = "InvalidURL" ->
           Return(Envelope(INVALID_URL_ERROR, Str("The url you provided is invalid!"), None))
      [] exc = "MissingSchema" ->
           Return(Envelope(EMPTY_URL_ERROR, Str("Please provide http:// or https://!"), None))
      [] exc = "ConnectionError" ->
           Return(Envelope(CONNECTION_ERROR, Str("There has been a connection error!"), None))
      [] exc = "ExpatError" ->
           Return(Envelope(XML_PARSE_ERROR, Str("XML parsing failed!"), None))
      [] OTHER ->
           Return(Envelope(UNEXPECTED_ERROR, Str("An unexpected error occurred!"), None))

\* the check of the document left out
request_empty_xml_unchecked(xml) == FALSE

\* request, lines 103-104: the check of the document
request_empty_xml(xml) == ~Truthy(xml)

\* Econt.request(url, xml)
request(url, xml, n) ==
    IF request_empty_xml(xml)
    THEN Result(Raise("ValueError"), <<>>, 1, 0)
    ELSE LET r == request_try(url, xml, n)
         IN  Result(IF r.kind = "raise" THEN request_except(r.val) ELSE r,
                    <<[url |-> url, data |-> xml]>>, 1, 1)

(***************************************************************************)
(* Request documents.                                                      *)
(***************************************************************************)
\* the bytes dicttoxml.dicttoxml(data, custom_root=root_element) gives: the
\* root's name, the elements, and the attributes set on elements (none)
XmlDoc(root_element, data) == [t |-> "xml", v |-> <<root_element, data, <<>> >>]

\* get_user_credentials with the two fields exchanged
get_user_credentials_exchanged(self) ==
    Dict(<< <<"client", Dict(<< <<"username", Str(self.password)>>,
                                <<"password", Str(self.username)>> >>)>> >>)

\* Econt.get_user_credentials()
get_user_credentials(self) ==
    Dict(<< <<"client", Dict(<< <<"username", Str(self.username)>>,
                                <<"password", Str(self.password)>> >>)>> >>)

\* data.update(other), for dicts
DictUpdate(data, other) ==
    LET RECURSIVE Upd(_, _)
        Upd(d, i) == IF i > Len(other.v) THEN d
                     ELSE Upd(DictSet(d, other.v[i][1], other.v[i][2]), i + 1)
    IN  Upd(data, 1)

\* Econt.xml_builder(data, root_element, authenticate)
xml_builder(self, data, root_element, authenticate) ==
    XmlDoc(root_element,
           IF authenticate THEN DictUpdate(data, get_user_credentials(self)) ELSE data)

\* Econt.__build_request(request_type, authenticate)
build_request(self, request_type, authenticate, n) ==
    request(self.service_url,
            xml_builder(self, Dict(<< <<"request_type", Str(request_type)>> >>),
                        "request", authenticate),
            n)

(***************************************************************************)
(* The facade operations.  Each takes the client (self), its arguments and *)
(* the network's answer n, and gives the call's Result.                    *)
(***************************************************************************)
\* the result r with another outcome
With(r, out) == [r EXCEPT !.out = out]

\* response['data'] = x; return response -- or the exception x stands for
SetData(response, x) ==
    IF IsExc(x) THEN Raise(x.v) ELSE Return([response EXCEPT !.data = x])

\* a == b, for Python values
PyEq(a, b) == a.t = b.t /\ a.v = b.v

\* the loop without its comparison: every entry is kept
FilterEq_unfiltered(xs, key, code) ==
    CASE xs.t = "exc" -> xs
      [] xs.t = "list" -> xs
      [] OTHER -> Exc("TypeError")

\* [x for x in xs if x[key] == code], xs an iterable: iterating a list gives
\* its items, a dict its keys (strs), a str its characters (strs), and
\* subscripting a str with a str raises TypeError
FilterEq(xs, key, code) ==
    CASE xs.t = "exc" -> xs
      [] xs.t = "list" ->
           LET got == [i \in 1..Len(xs.v) |-> GetItem(xs.v[i], key)]
               bad == {i \in 1..Len(xs.v) : IsExc(got[i]) /\
                          \A j \in 1..(i - 1) : ~IsExc(got[j])}
           IN  IF bad # {} THEN got[CHOOSE i \in bad : TRUE]
               ELSE List(SelectSeq(xs.v, LAMBDA x : PyEq(GetItem(x, key), code)))
      [] xs.t = "dict" -> IF Len(xs.v) = 0 THEN List(<<>>) ELSE Exc("TypeError")
      [] xs.t = "str" -> IF xs.v = "" THEN List(<<>>) ELSE Exc("TypeError")
      [] OTHER -> Exc("TypeError")

\* Econt.retrieve_profile()
retrieve_profile(self, n) ==
    LET r == build_request(self, "PROFILE", TRUE, n)
        response == r.out.val
    IN  IF Truthy(response.data)
        THEN With(r, SetData(response, GetItem(response.data, "response")))
        ELSE r

\* Econt.get_offices()
get_offices(self, n) == build_request(self, "OFFICES", TRUE, n)

\* Econt.get_streets()
get_streets(self, n) == build_request(self, "STREETS", TRUE, n)

\* Econt.get_quarters()
get_quarters(self, n) == build_request(self, "QUARTERS", TRUE, n)

\* Econt.get_regions()
get_regions(self, n) == build_request(self, "REGIONS", TRUE, n)

\* Econt.get_zones()
get_zones(self, n) == build_request(self, "ZONES", TRUE, n)

\* Econt.cancel_shipment(shipment_number)
cancel_shipment(self, shipment_number, n) ==
    request(self.service_url,
            xml_builder(self, D2("request_type", Str("CANCEL_SHIPMENTS"),
                                 "cancel_shipments", D1("num", shipment_number)),
                        "request", TRUE),
            n)

\* Econt.register(data)
register(self, data, n) ==
    request(self.service_url,
            xml_builder(self, Dict(<< <<"system", D1("api_action", Str("validate"))>>,
                                      <<"request_type", Str("E_ECONT_REGISTRATION")>>,
                                      <<"data", data>> >>),
                        "request", TRUE),
            n)

\* Econt.get_cities(id_zone, report_type)
get_cities(self, id_zone, report_type, n) ==
    IF report_type = Str("all") /\ ~Truthy(id_zone)
    THEN build_request(self, "CITIES", TRUE, n)
    ELSE LET info == D1("report_type", report_type)
             cities_request_info ==
                 IF Truthy(id_zone) THEN DictSet(info, "id_zone", PyStr(id_zone)) ELSE info
         IN  request(self.service_url,
                     xml_builder(self, D2("request_type", Str("CITIES"),
                                          "cities", cities_request_info),
                                 "request", TRUE),
                     n)

\* get_streets_by_city, lines 426-430: the streets of the city
streets_filter(response, city_post_code) ==
    IF IsExc(response) THEN response
    ELSE IF Truthy(response)
    THEN FilterEq(GetItem(GetItem(response, "cities_street"), "e"),
                  "city_post_code", city_post_code)
    ELSE List(<<>>)

\* Econt.get_streets_by_city(city_post_code)
get_streets_by_city(self, city_post_code, n) ==
    IF ~Truthy(city_post_code)
    THEN Result(Raise("ValueError"), <<>>, 0, 0)
    ELSE LET r == get_streets(self, n)
             streets_dict == r.out.val
             data == to_dict(streets_dict.data)
             streets_list == streets_filter(GetItem(data, "response"), PyStr(city_post_code))
         IN  With(r, SetData(streets_dict,
                             IF IsExc(streets_list) THEN streets_list
                             ELSE D1("streets", streets_list)))

\* get_offices_by_city, lines 460-464: the offices of the city
offices_filter(response, city_post_code) ==
    IF IsExc(response) THEN response
    ELSE IF Truthy(response)
    THEN FilterEq(GetItem(GetItem(response, "offices"), "e"),
                  "post_code", city_post_code)
    ELSE List(<<>>)

\* Econt.get_offices_by_city(city_post_code)
get_offices_by_city(self, city_post_code, n) ==
    IF ~Truthy(city_post_code)
    THEN Result(Raise("ValueError"), <<>>, 0, 0)
    ELSE LET r == get_offices(self, n)
             offices_dict == r.out.val
             data == to_dict(offices_dict.data)
             offices_list == offices_filter(GetItem(data, "response"), PyStr(city_post_code))
         IN  With(r, SetData(offices_dict,
                             IF IsExc(offices_list) THEN offices_list
                             ELSE D1("streets", offices_list)))

\* Econt.get_countries()
get_countries(self, n) ==
    LET r == build_request(self, "COUNTRIES", TRUE, n)
        response == r.out.val
        all_countries == GetItem(GetItem(response.data, "response"), "e")
    IN  IF Truthy(response.data)
        THEN With(r, SetData(response, IF IsExc(all_countries) THEN all_countries
                                       ELSE D1("countries", all_countries)))
        ELSE r

\* Econt.get_seller_addresses()
get_seller_addresses(self, n) ==
    LET r == retrieve_profile(self, n)
    IN  IF r.out.kind = "raise" THEN r
        ELSE LET response == [r.out.val EXCEPT !.data = to_dict(@), !.message = to_dict(@)]
                 addresses == GetItem(GetItem(response.data, "addresses"), "e")
             IN  IF Truthy(response.data)
                 THEN With(r, SetData(response, IF IsExc(addresses) THEN addresses
                                                ELSE D1("addresses", addresses)))
                 ELSE With(r, Return(response))

\* get_quarters_by_post_code, lines 563-570: the quarters of the city
quarters_filter(all_quarters, city_post_code) ==
    IF IsExc(all_quarters) THEN all_quarters
    ELSE IF all_quarters.t = "dict"
    THEN LET code == GetItem(all_quarters, "city_post_code")
         IN  IF IsExc(code) THEN code
             ELSE IF PyEq(code, city_post_code) THEN List(<<all_quarters>>)
             ELSE List(<<>>)
    ELSE FilterEq(all_quarters, "city_post_code", city_post_code)

\* Econt.get_quarters_by_post_code(city_post_code)
get_quarters_by_post_code(self, city_post_code, n) ==
    IF ~Truthy(city_post_code)
    THEN Result(Raise("ValueError"), <<>>, 0, 0)
    ELSE LET r == get_quarters(self, n)
             response == r.out.val
             all_quarters ==
                 GetItem(GetItem(GetItem(response.data, "response"), "cities_quarters"), "e")
             sought_quarters == quarters_filter(all_quarters, PyStr(city_post_code))
         IN  IF Truthy(response.data)
             THEN With(r, SetData(response, IF IsExc(sought_quarters) THEN sought_quarters
                                            ELSE D1("quarters", sought_quarters)))
             ELSE r

\* Econt.get_clients()
get_clients(self, n) ==
    LET r == build_request(self, "ACCESS_CLIENTS", TRUE, n)
        response == r.out.val
    IN  IF Truthy(response.data)
        THEN With(r, SetData(response, GetItem(response.data, "response")))
        ELSE r

\* Econt.validate_cd_agreement(name, cd_no)
validate_cd_agreement(self, name, cd_no, n) ==
    LET r == request(self.service_url,
                     xml_builder(self, Dict(<< <<"request_type", Str("CD_AGREEMENT")>>,
                                               <<"client_name", name>>,
                                               <<"cd_agreement", cd_no>> >>),
                                 "request", TRUE),
                     n)
        response == r.out.val
        is_valid == GetItem(GetItem(response.data, "response"), "is_valid")
    IN  IF Truthy(response.data)
        THEN With(r, SetData(response, IF IsExc(is_valid) THEN is_valid
                                       ELSE D1("is_valid", is_valid)))
        ELSE r

\* get_postboxes without the check of its arguments
get_postboxes_unchecked(self, city_name, quarter_name, n) ==
    LET r == request(self.service_url,
                     xml_builder(self,
                         D2("request_type", Str("POSTBOXES"),
                            "post_boxes", D1("e", D2("city_name", city_name,
                                                     "quarter_name", quarter_name))),
                         "request", TRUE),
                     n)
        response == r.out.val
        boxes == GetItem(GetItem(GetItem(response.data, "response"), "post_boxes"), "e")
    IN  With(r, SetData(response, IF IsExc(boxes) THEN boxes
                                  ELSE D1("post_boxes", boxes)))

\* Econt.get_postboxes(city_name, quarter_name)
get_postboxes(self, city_name, quarter_name, n) ==
    IF Truthy(quarter_name) /\ ~Truthy(city_name)
    THEN Result(Raise("ValueError"), <<>>, 0, 0)
    ELSE LET r == request(self.service_url,
                          xml_builder(self,
                              D2("request_type", Str("POSTBOXES"),
                                 "post_boxes", D1("e", D2("city_name", city_name,
                                                          "quarter_name", quarter_name))),
                              "request", TRUE),
                          n)
             response == r.out.val
             boxes == GetItem(GetItem(GetItem(response.data, "response"), "post_boxes"), "e")
         IN  With(r, SetData(response, IF IsExc(boxes) THEN boxes
                                       ELSE D1("post_boxes", boxes)))

\* get_post_tariff posting to the service URL of the client
get_post_tariff_client_url(self, n) ==
    request(self.service_url,
            xml_builder(self, D1("request_type", Str("POST_TARIFF")), "request", TRUE),
            n)

\* Econt.get_post_tariff()
get_post_tariff(self, n) ==
    request(ECONT_SERVICE_URL,
            xml_builder(self, D1("request_type", Str("POST_TARIFF")), "request", TRUE),
            n)

\* Econt.validate_address(address_json)
validate_address(self, address_json, n) ==
    LET r == request(self.service_url,
                     xml_builder(self, D2("request_type", Str("CHECK_ADDRESS"),
                                          "address", address_json),
                                 "request", TRUE),
                     n)
        response == r.out.val
        address == GetItem(GetItem(response.data, "response"), "address")
        validation_status == GetItem(address, "validation_status")
        error == GetItem(address, "error")
    IN  IF Truthy(response.data)
        THEN IF IsExc(validation_status) THEN With(r, Raise(validation_status.v))
             ELSE IF PyEq(validation_status, Str("invalid"))
             THEN IF IsExc(error) THEN With(r, Raise(error.v))
                  ELSE With(r, Return(Envelope(ECONT_API_XML_ERROR, error, None)))
             ELSE r
        ELSE r

\* the reshape that moves the error into the message and leaves the status
build_shipment_result_status_kept(response, validate, only_calculate) ==
    LET result_info == GetItem(GetItem(GetItem(response.data, "response"), "result"), "e")
        error == GetItem(result_info, "error")
        pdf_info == IF ~validate /\ ~only_calculate
                    THEN GetItem(GetItem(response.data, "response"), "pdf")
                    ELSE None
    IN  IF IsExc(error) THEN Raise(error.v)
        ELSE IF Truthy(error)
        THEN Return(Envelope(response.status, error, None))
        ELSE IF ~HasKey(result_info, "error_code") THEN Raise("KeyError")
        ELSE IF IsExc(pdf_info) THEN Raise(pdf_info.v)
        ELSE Return([response EXCEPT !.data =
                        D2("result", DictDel(DictDel(result_info, "error"), "error_code"),
                           "pdf", pdf_info)])

\* the reshape that attaches the pdf in every mode
build_shipment_result_pdf_always(response, validate, only_calculate) ==
    LET result_info == GetItem(GetItem(GetItem(response.data, "response"), "result"), "e")
        error == GetItem(result_info, "error")
        pdf_info == GetItem(GetItem(response.data, "response"), "pdf")
    IN  IF IsExc(error) THEN Raise(error.v)
        ELSE IF Truthy(error)
        THEN Return(Envelope(ECONT_API_XML_ERROR, error, None))
        ELSE IF ~HasKey(result_info, "error_code") THEN Raise("KeyError")
        ELSE IF IsExc(pdf_info) THEN Raise(pdf_info.v)
        ELSE Return([response EXCEPT !.data =
                        D2("result", DictDel(DictDel(result_info, "error"), "error_code"),
                           "pdf", pdf_info)])

\* __build_shipment, lines 690-705: the reshape of a result without a message
build_shipment_result(response, validate, only_calculate) ==
    LET result_info == GetItem(GetItem(GetItem(response.data, "response"), "result"), "e")
        error == GetItem(result_info, "error")
        pdf_info == IF ~validate /\ ~only_calculate
                    THEN GetItem(GetItem(response.data, "response"), "pdf")
                    ELSE None
    IN  IF IsExc(error) THEN Raise(error.v)
        ELSE IF Truthy(error)
        THEN Return(Envelope(ECONT_API_XML_ERROR, error, None))
        ELSE IF ~HasKey(result_info, "error_code") THEN Raise("KeyError")
        ELSE IF IsExc(pdf_info) THEN Raise(pdf_info.v)
        ELSE Return([response EXCEPT !.data =
                        D2("result", DictDel(DictDel(result_info, "error"), "error_code"),
                           "pdf", pdf_info)])

\* the reshape that lets a message override without looking at error_email
build_shipment_reshape_any_email(response, validate, only_calculate, error_email) ==
    LET result == GetItem(GetItem(response.data, "response"), "result")
        has_message == Contains(result, "message")
    IN  IF IsExc(has_message) THEN Raise(has_message.v)
        ELSE IF Truthy(has_message)
        THEN IF IsExc(GetItem(result, "message")) THEN Raise(GetItem(result, "message").v)
             ELSE Return(Envelope(ECONT_API_XML_ERROR, GetItem(result, "message"), None))
        ELSE build_shipment_result(response, validate, only_calculate)

\* __build_shipment, lines 684-705: the reshape of an envelope with data
build_shipment_reshape(response, validate, only_calculate, error_email) ==
    LET result == GetItem(GetItem(response.data, "response"), "result")
        has_message == Contains(result, "message")
    IN  IF ~Truthy(error_email) THEN build_shipment_result(response, validate, only_calculate)
        ELSE IF IsExc(has_message) THEN Raise(has_message.v)
        ELSE IF Truthy(has_message)
        THEN IF IsExc(GetItem(result, "message")) THEN Raise(GetItem(result, "message").v)
             ELSE Return(Envelope(ECONT_API_XML_ERROR, GetItem(result, "message"), None))
        ELSE build_shipment_result(response, validate, only_calculate)

\* Econt.__build_shipment(...)
build_shipment(self, sender_data, receiver_data, shipment_data, services_data, payment_data, instructions_data, validate, only_calculate, process_all_parcels, error_email, n) ==
    IF IsExc(GetItem(payment_data, "side"))
    THEN Result(Raise(GetItem(payment_data, "side").v), <<>>, 0, 0)
    ELSE LET data ==
                 Dict(<< <<"system",
                           Dict(<< <<"response_type", Str("XML")>>,
                                   <<"validate", PyInt(IF validate THEN 1 ELSE 0)>>,
                                   <<"only_calculate", PyInt(IF only_calculate THEN 1 ELSE 0)>>,
                                   <<"process_all_parcels",
                                     PyInt(IF process_all_parcels THEN 1 ELSE 0)>>,
                                   <<"email_errors_to", error_email>> >>)>>,
                         <<"request_type", Str("SHIPPING")>>,
                         <<"loadings",
                           D1("row", Dict(<< <<"sender", sender_data>>,
                                             <<"receiver", receiver_data>>,
                                             <<"shipment", shipment_data>>,
                                             <<"services", services_data>>,
                                             <<"payment", payment_data>>,
                                             <<"instructions", instructions_data>> >>))>> >>)
             r == request(self.parcels_url, xml_builder(self, data, "parcels", TRUE), n)
             response == r.out.val
         IN  IF Truthy(response.data)
             THEN With(r, build_shipment_reshape(response, validate, only_calculate,
                                                 error_email))
             ELSE r

\* Econt.create_shipment(...)
create_shipment(self, sender_data, receiver_data, shipment_data, services_data, payment_data, instructions_data, error_email, n) ==
    build_shipment(self, sender_data, receiver_data, shipment_data, services_data,
                   payment_data, instructions_data, FALSE, FALSE, FALSE, error_email, n)

\* Econt.calculate_shipment_price(...)
calculate_shipment_price(self, sender_data, receiver_data, shipment_data, services_data, payment_data, instructions_data, error_email, n) ==
    build_shipment(self, sender_data, receiver_data, shipment_data, services_data,
                   payment_data, instructions_data, FALSE, TRUE, FALSE, error_email, n)

\* Econt.validate_shipment(...)
validate_shipment(self, sender_data, receiver_data, shipment_data, services_data, payment_data, instructions_data, error_email, n) ==
    build_shipment(self, sender_data, receiver_data, shipment_data, services_data,
                   payment_data, instructions_data, TRUE, FALSE, FALSE, error_email, n)

\* add_attribute(xml, tag, attr, value): the attribute set on every tag element
add_attribute(xml, tag, attr, value) ==
    IF xml.v[1] = tag \/ nested_lookup(tag, xml.v[2]) # <<>>
    THEN [xml EXCEPT !.v[3] = Append(@, <<tag, attr, value>>)]
    ELSE xml

\* retrieve_shipment_info, lines 948-951: the list of the shipments
shipments_reshape(data, shipment_ids) ==
    LET ships == GetItem(GetItem(GetItem(data, "response"), "shipments"), "e")
    IN  IF IsExc(ships) THEN ships
        ELSE IF Len(shipment_ids.v) = 1 THEN D1("shipments", List(<<ships>>))
        ELSE D1("shipments", ships)

\* Econt.retrieve_shipment_info(shipment_ids, full_tracking)
retrieve_shipment_info(self, shipment_ids, full_tracking, n) ==
    LET data == DictUpdate(D2("request_type", Str("shipments"), "shipments", shipment_ids),
                           get_user_credentials(self))
        xml == IF full_tracking
               THEN add_attribute(XmlDoc("request", data), "shipments", "full_tracking", "ON")
               ELSE XmlDoc("request", data)
        r == request(self.service_url, xml, n)
        response == r.out.val
    IN  IF Truthy(response.data)
        THEN With(r, SetData(response, shipments_reshape(response.data, shipment_ids)))
        ELSE r

(***************************************************************************)
(* Dates (helper_functions.py).  The str 'y-m-d' a caller passes as a date *)
(* is the value DateText(y, m, d); a date is the tuple <<y, m, d>>.        *)
(***************************************************************************)
DateText(y, m, d) == [t |-> "datestr", v |-> <<y, m, d>>]

IsLeap(y) == y % 4 = 0 /\ (y % 100 # 0 \/ y % 400 = 0)

DaysInMonth(y, m) ==
    CASE m = 2 -> IF IsLeap(y) THEN 29 ELSE 28
      [] m \in {4, 6, 9, 11} -> 30
      [] OTHER -> 31

RECURSIVE DaysBeforeMonth(_, _)
DaysBeforeMonth(y, m) ==
    IF m = 1 THEN 0 ELSE DaysBeforeMonth(y, m - 1) + DaysInMonth(y, m - 1)

\* date.toordinal(): day 1 is 0001-01-01
ToOrdinal(date) ==
    LET y == date[1] - 1
    IN  y * 365 + (y \div 4) - (y \div 100) + (y \div 400)
        + DaysBeforeMonth(date[1], date[2]) + date[3]

\* date.weekday(): Monday is 0, Saturday 5, Sunday 6
Weekday(date) == (ToOrdinal(date) + 6) % 7

\* datetime.strptime(date_text, '%Y-%m-%d'): the date, or ValueError
strptime(date_text) ==
    IF /\ date_text.t = "datestr"
       /\ date_text.v[1] \in 1..9999
       /\ date_text.v[2] \in 1..12
       /\ date_text.v[3] \in 1..DaysInMonth(date_text.v[1], date_text.v[2])
    THEN [t |-> "date", v |-> date_text.v]
    ELSE Exc("ValueError")

\* date + timedelta(days=1)
NextDay(date) ==
    IF date[3] < DaysInMonth(date[1], date[2]) THEN <<date[1], date[2], date[3] + 1>>
    ELSE IF date[2] < 12 THEN <<date[1], date[2] + 1, 1>>
    ELSE <<date[1] + 1, 1, 1>>

\* str(date): YYYY-MM-DD, zero-padded
Pad(n, width) ==
    LET digits == IntToStr(n)
        len == IF n < 10 THEN 1 ELSE IF n < 100 THEN 2 ELSE IF n < 1000 THEN 3 ELSE 4
        zeros == [k \in 0..3 |-> CASE k = 0 -> "" [] k = 1 -> "0" [] k = 2 -> "00"
                                   [] k = 3 -> "000"]
    IN  IF len >= width THEN digits ELSE zeros[width - len] \o digits

DateStr(date) == Str(Pad(date[1], 4) \o "-" \o Pad(date[2], 2) \o "-" \o Pad(date[3], 2))

\* validate_date(date_text), on the day today: None, or ValueError
validate_date(date_text, today) ==
    LET param == strptime(date_text)
    IN  IF IsExc(param) THEN param
        ELSE IF ToOrdinal(param.v) < ToOrdinal(today) THEN Exc("ValueError")
        ELSE None

\* next_working_day taking Sunday (6) for the day before the rest day
next_working_day_sunday(date) ==
    LET param == strptime(date)
    IN  IF Weekday(param.v) = 6 THEN DateStr(NextDay(NextDay(param.v)))
        ELSE DateStr(NextDay(param.v))

\* next_working_day(date)
next_working_day(date) ==
    LET param == strptime(date)
    IN  IF Weekday(param.v) = 5 THEN DateStr(NextDay(NextDay(param.v)))
        ELSE DateStr(NextDay(param.v))

\* get_delivery_days, lines 1008-1016: the dates the provider lists
delivery_days_list(days_list) ==
    CASE days_list.t = "exc" -> days_list
      [] days_list.t = "list" ->
           IF \E i \in 1..Len(days_list.v) : days_list.v[i].t # "dict"
           THEN Exc("AttributeError")
           ELSE List(Concat([i \in 1..Len(days_list.v) |->
                        [j \in 1..Len(days_list.v[i].v) |-> days_list.v[i].v[j][2]]]))
      [] OTHER ->
           LET day == GetItem(days_list, "date")
           IN  IF IsExc(day) THEN day ELSE List(<<day>>)

\* Econt.get_delivery_days(date), called on the day today
get_delivery_days(self, date, today, n) ==
    IF IsExc(validate_date(date, today))
    THEN Result(Raise("ValueError"), <<>>, 0, 0)
    ELSE LET r == request(self.service_url,
                          xml_builder(self,
                              Dict(<< <<"request_type", Str("DELIVERY_DAYS")>>,
                                      <<"delivery_days", date>>,
                                      <<"system", D1("response_type", Str("XML"))>> >>),
                              "request", TRUE),
                          n)
             response == r.out.val
             delivery_days == GetItem(GetItem(response.data, "response"), "delivery_days")
             result == delivery_days_list(GetItem(delivery_days, "e"))
         IN  IF Truthy(response.data)
             THEN IF IsExc(delivery_days) THEN With(r, Raise(delivery_days.v))
                  ELSE IF Truthy(delivery_days)
                  THEN With(r, SetData(response, IF IsExc(result) THEN result
                                                 ELSE D1("delivery_days", result)))
                  ELSE With(r, SetData(response,
                                       D1("delivery_days", List(<<next_working_day(date)>>))))
             ELSE r

(***************************************************************************)
(* Provider documents: the parsed forms xmltodict gives for the bodies the *)
(* provider can send.  An element with text is a str, an empty element is  *)
(* None, an element with children is a dict, repeated siblings are a list. *)
(***************************************************************************)
Resp(x) == D1("response", x)

\* the texts that hold the provider's error marker 'API_ERR'
MarkerTexts == {"API_ERR"}

\* 'API_ERR' in response_xml.text, for the text of a well-formed document
RECURSIVE HasMarker(_)
HasMarker(x) ==
    CASE x.t = "str" -> x.v \in MarkerTexts
      [] x.t = "dict" -> \E i \in 1..Len(x.v) :
                            x.v[i][1] \in MarkerTexts \/ HasMarker(x.v[i][2])
      [] x.t = "list" -> \E i \in 1..Len(x.v) : HasMarker(x.v[i])
      [] OTHER -> FALSE

XmlBody(doc) == [wellformed |-> TRUE, marker |-> HasMarker(doc), doc |-> doc]
BadBody(marker) == [wellformed |-> FALSE, marker |-> marker, doc |-> None]

ErrorTexts == {"Invalid user", "E2"}

\* the documents of provider-reported errors
ErrorDocs ==
    {Resp(D2("error", Str(e), "error_code", Str("API_ERR"))) : e \in ErrorTexts}
    \cup {Resp(D1("error", D2("code", Str("API_ERR"), "message", Str(e)))) : e \in ErrorTexts}
    \cup {Resp(D1("error", D2("code", Str("API_ERR"), "message", None))),
          Resp(D1("error", D2("code", Str("API_ERR"), "message", D1("text", Str("E2"))))),
          Resp(D2("error", None, "error_code", Str("API_ERR"))),
          Resp(D1("error_code", Str("API_ERR"))),
          Resp(D2("error", List(<<Str("Invalid user"), Str("E2")>>), "error_code", Str("API_ERR")))}

PlainDocs == {Resp(None), Resp(D1("ok", Str("1"))), D1("html", Str("moved"))}

\* the longest list of entries a provider document holds
MaxEntries == 3

\* the lists xmltodict gives for repeated elements: two entries or more
Lists(entries) ==
    UNION {[1..len -> entries] : len \in 2..MaxEntries}

\* what xmltodict gives for the e elements under a wrapper: None for none,
\* the bare entry for one, a list for several
Collapsed(entries) == {None} \cup entries \cup {List(l) : l \in Lists(entries)}

PostCodes == {"1407", "1000"}

StreetEntries ==
    {D2("name", Str("Vitosha"), "city_post_code", Str("1407")),
     D2("name", Str("Rila"), "city_post_code", Str("1407")),
     D2("name", Str("Pirin"), "city_post_code", Str("1000"))}

OfficeEntries ==
    {D2("name", Str("Sofia Center"), "post_code", Str("1407")),
     D2("name", Str("Sofia Iztok"), "post_code", Str("1407")),
     D2("name", Str("Sofia Zapad"), "post_code", Str("1000"))}

StreetDocs == {Resp(D1("cities_street", D1("e", e))) : e \in Collapsed(StreetEntries)}
OfficeDocs == {Resp(D1("offices", D1("e", e))) : e \in Collapsed(OfficeEntries)}
QuarterDocs == {Resp(D1("cities_quarters", D1("e", e))) : e \in Collapsed(StreetEntries)}

\* the result of one loading: its number, error and error code
ResultInfos ==
    {Dict(<< <<"loading_num", Str("1051")>>, <<"error", None>>, <<"error_code", None>> >>),
     Dict(<< <<"loading_num", None>>, <<"error", Str("Invalid receiver")>>,
             <<"error_code", Str("E1")>> >>),
     D2("loading_num", Str("1051"), "error", None)}

Pdf == D1("blank_url", Str("http://demo.econt.com/print/1051"))

ShipmentDocs ==
    {Resp(D2("result", D1("e", i), "pdf", Pdf)) : i \in ResultInfos}
    \cup {Resp(D1("result", D1("e", i))) : i \in ResultInfos}
    \cup {Resp(D2("result", D2("message", Str("Errors were mailed"), "e", i), "pdf", Pdf)) :
             i \in ResultInfos}
    \cup {Resp(D1("result", D1("message", Str("Errors were mailed")))),
          Resp(D1("result", None))}

DeliveryDocs ==
    {Resp(D1("delivery_days", None)),
     Resp(D1("delivery_days", D1("e", D1("date", Str("2027-01-04"))))),
     Resp(D1("delivery_days", D1("e", List(<<D1("date", Str("2027-01-04")),
                                            D1("date", Str("2027-01-05"))>>))))}

AddressDocs ==
    {Resp(D1("address", D2("validation_status", Str("invalid"),
                           "error", Str("No such street")))),
     Resp(D1("address", D2("validation_status", Str("normal"), "error", None)))}

ShipmentEntries ==
    {D2("loading_num", Str("1051"), "is_imported", Str("1")),
     D2("loading_num", Str("1052"), "is_imported", Str("0"))}

ShipmentInfoDocs == {Resp(D1("shipments", D1("e", e))) : e \in Collapsed(ShipmentEntries)}

OtherDocs ==
    {Resp(D1("e", List(<<D1("country_name", Str("Bulgaria")),
                         D1("country_name", Str("Greece"))>>))),
     Resp(D2("client_info", D1("name", Str("IASP")),
             "addresses", D1("e", D1("city", Str("Sofia"))))),
     Resp(D1("is_valid", Str("1"))),
     Resp(D1("post_boxes", D1("e", D1("city_name", Str("Sofia")))))}

Docs ==
    ErrorDocs \cup PlainDocs \cup StreetDocs \cup OfficeDocs \cup QuarterDocs
    \cup ShipmentDocs \cup DeliveryDocs \cup AddressDocs \cup ShipmentInfoDocs \cup OtherDocs

\* what the network can do with a POST
Nets ==
    {[k |-> e, body |-> BadBody(FALSE)] : e \in {"ConnectionError", "ReadTimeout", "OSError"}}
    \cup {[k |-> "response", body |-> BadBody(m)] : m \in BOOLEAN}
    \cup {[k |-> "response", body |-> XmlBody(d)] : d \in Docs}

\* the URLs a caller of request can pass
RequestUrls ==
    {ECONT_SERVICE_DEMO_URL, ECONT_PARCELS_URL,
     Url("", TRUE, "", ""),
     Url("demo.econt.com/e-econt/xml_service_tool.php", TRUE, "", ""),
     Url("http://", TRUE, "http", ""),
     Url("http://[econt", FALSE, "", ""),
     Url("ftp://econt.com/e-econt", TRUE, "ftp", "econt.com")}

\* the documents a caller of request can pass
RequestXmls ==
    {Str(""), XmlDoc("request", D1("request_type", Str("profile")))}

\* the post codes a caller can pass: strs and ints, empty ones too
PostCodeArgs == {Str(c) : c \in PostCodes} \cup {PyInt(1407), Str(""), PyInt(0)}

\* the dates a caller can pass, and the days a call can be made on
DateArgs ==
    {DateText(y, 12, d) : y \in {2027}, d \in 27..32}
    \cup {DateText(y, 2, d) : y \in {2028}, d \in 26..30}
    \cup {DateText(2028, 4, d) : d \in 29..30}
    \cup {DateText(2028, 1, d) : d \in 1..3}
    \cup {Str("tomorrow"), Str("")}

Todays == {<<2027, 12, 29>>, <<2026, 11, 5>>}

\* the shipment ids a caller can pass
ShipmentIdArgs ==
    {List(<<Str("1051")>>), List(<<Str("1051"), Str("1052")>>),
     List(<<Str("1051"), Str("1052"), Str("1053")>>)}

PaymentArgs == {D1("side", Str("SENDER")), D1("side", Str("RECEIVER")), D1("method", Str("CASH"))}

EmailArgs == {Str(""), Str("errors@iasp.bg")}

Clients == {Econt(u, "secret", demo) : u \in {"iasp-dev"}, demo \in BOOLEAN}

(***************************************************************************)
(* The state machine.  Calls are synchronous: a call is made when no call  *)
(* is under way, and its result is handed over before the next one.        *)
(***************************************************************************)
NoCall == [op |-> "none", args |-> <<>>]
NoNet == [k |-> "none", body |-> BadBody(FALSE)]
NoOutcome == [kind |-> "none", val |-> None]

Init ==
    /\ client \in Clients
    /\ call = NoCall
    /\ net = NoNet
    /\ outcome = NoOutcome
    /\ posts = <<>>
    /\ opened = 0
    /\ closed = 0

\* one call: the state after it holds the call, the network's answer and the
\* call's result
Does(op, args, n, r) ==
    /\ call' = [op |-> op, args |-> args]
    /\ net' = n
    /\ outcome' = r.out
    /\ posts' = r.posts
    /\ opened' = r.opened
    /\ closed' = r.closed
    /\ UNCHANGED client

Call_request ==
    /\ call = NoCall
    /\ \E url \in RequestUrls, xml \in RequestXmls, n \in Nets :
        Does("request", <<url, xml>>, n, request(url, xml, n))

Call_validate_address ==
    /\ call = NoCall
    /\ \E n \in Nets :
        Does("validate_address", <<D1("city", Str("Sofia"))>>, n,
             validate_address(client, D1("city", Str("Sofia")), n))

Call_register ==
    /\ call = NoCall
    /\ \E n \in Nets :
        Does("register", <<D1("name", Str("IASP"))>>, n,
             register(client, D1("name", Str("IASP")), n))

Call_retrieve_profile ==
    /\ call = NoCall
    /\ \E n \in Nets : Does("retrieve_profile", <<>>, n, retrieve_profile(client, n))

Call_get_offices ==
    /\ call = NoCall
    /\ \E n \in Nets : Does("get_offices", <<>>, n, get_offices(client, n))

Call_cancel_shipment ==
    /\ call = NoCall
    /\ \E n \in Nets :
        Does("cancel_shipment", <<Str("1051")>>, n, cancel_shipment(client, Str("1051"), n))

Call_get_streets ==
    /\ call = NoCall
    /\ \E n \in Nets : Does("get_streets", <<>>, n, get_streets(client, n))

Call_get_cities ==
    /\ call = NoCall
    /\ \E id_zone \in {None, PyInt(3)}, report_type \in {Str("short"), Str("all")}, n \in Nets :
        Does("get_cities", <<id_zone, report_type>>, n,
             get_cities(client, id_zone, report_type, n))

Call_get_streets_by_city ==
    /\ call = NoCall
    /\ \E city_post_code \in PostCodeArgs, n \in Nets :
        Does("get_streets_by_city", <<city_post_code>>, n,
             get_streets_by_city(client, city_post_code, n))

Call_get_offices_by_city ==
    /\ call = NoCall
    /\ \E city_post_code \in PostCodeArgs, n \in Nets :
        Does("get_offices_by_city", <<city_post_code>>, n,
             get_offices_by_city(client, city_post_code, n))

Call_get_countries ==
    /\ call = NoCall
    /\ \E n \in Nets : Does("get_countries", <<>>, n, get_countries(client, n))

Call_get_seller_addresses ==
    /\ call = NoCall
    /\ \E n \in Nets : Does("get_seller_addresses", <<>>, n, get_seller_addresses(client, n))

Call_get_quarters ==
    /\ call = NoCall
    /\ \E n \in Nets : Does("get_quarters", <<>>, n, get_quarters(client, n))

Call_get_quarters_by_post_code ==
    /\ call = NoCall
    /\ \E city_post_code \in PostCodeArgs, n \in Nets :
        Does("get_quarters_by_post_code", <<city_post_code>>, n,
             get_quarters_by_post_code(client, city_post_code, n))

Call_get_regions ==
    /\ call = NoCall
    /\ \E n \in Nets : Does("get_regions", <<>>, n, get_regions(client, n))

Call_get_zones ==
    /\ call = NoCall
    /\ \E n \in Nets : Does("get_zones", <<>>, n, get_zones(client, n))

Call_create_shipment ==
    /\ call = NoCall
    /\ \E payment_data \in PaymentArgs, error_email \in EmailArgs, n \in Nets :
        Does("create_shipment", <<payment_data, error_email>>, n,
             create_shipment(client, Str("sender"), Str("receiver"), Str("shipment"),
                             Str("services"), payment_data, Str("instructions"),
                             error_email, n))

Call_calculate_shipment_price ==
    /\ call = NoCall
    /\ \E payment_data \in PaymentArgs, error_email \in EmailArgs, n \in Nets :
        Does("calculate_shipment_price", <<payment_data, error_email>>, n,
             calculate_shipment_price(client, Str("sender"), Str("receiver"),
                                      Str("shipment"), Str("services"), payment_data,
                                      Str("instructions"), error_email, n))

Call_validate_shipment ==
    /\ call = NoCall
    /\ \E payment_data \in PaymentArgs, error_email \in EmailArgs, n \in Nets :
        Does("validate_shipment", <<payment_data, error_email>>, n,
             validate_shipment(client, Str("sender"), Str("receiver"), Str("shipment"),
                               Str("services"), payment_data, Str("instructions"),
                               error_email, n))

Call_get_clients ==
    /\ call = NoCall
    /\ \E n \in Nets : Does("get_clients", <<>>, n, get_clients(client, n))

Call_validate_cd_agreement ==
    /\ call = NoCall
    /\ \E n \in Nets :
        Does("validate_cd_agreement", <<Str("IASP"), Str("CD-17")>>, n,
             validate_cd_agreement(client, Str("IASP"), Str("CD-17"), n))

Call_get_postboxes ==
    /\ call = NoCall
    /\ \E city_name \in {Str(""), Str("Sofia")}, quarter_name \in {Str(""), Str("Lozenets")},
       n \in Nets :
        Does("get_postboxes", <<city_name, quarter_name>>, n,
             get_postboxes(client, city_name, quarter_name, n))

Call_retrieve_shipment_info ==
    /\ call = NoCall
    /\ \E shipment_ids \in ShipmentIdArgs, full_tracking \in BOOLEAN, n \in Nets :
        Does("retrieve_shipment_info", <<shipment_ids, full_tracking>>, n,
             retrieve_shipment_info(client, shipment_ids, full_tracking, n))

Call_get_post_tariff ==
    /\ call = NoCall
    /\ \E n \in Nets : Does("get_post_tariff", <<>>, n, get_post_tariff(client, n))

Call_get_delivery_days ==
    /\ call = NoCall
    /\ \E date \in DateArgs, today \in Todays, n \in Nets :
        Does("get_delivery_days", <<date, today>>, n,
             get_delivery_days(client, date, today, n))

\* the caller takes the result; nothing of the call is kept
Forget ==
    /\ call # NoCall
    /\ call' = NoCall
    /\ net' = NoNet
    /\ outcome' = NoOutcome
    /\ posts' = <<>>
    /\ opened' = 0
    /\ closed' = 0
    /\ UNCHANGED client

Next ==
    \/ Call_request
    \/ Call_validate_address
    \/ Call_register
    \/ Call_retrieve_profile
    \/ Call_get_offices
    \/ Call_cancel_shipment
    \/ Call_get_streets
    \/ Call_get_cities
    \/ Call_get_streets_by_city
    \/ Call_get_offices_by_city
    \/ Call_get_countries
    \/ Call_get_seller_addresses
    \/ Call_get_quarters
    \/ Call_get_quarters_by_post_code
    \/ Call_get_regions
    \/ Call_get_zones
    \/ Call_create_shipment
    \/ Call_calculate_shipment_price
    \/ Call_validate_shipment
    \/ Call_get_clients
    \/ Call_validate_cd_agreement
    \/ Call_get_postboxes
    \/ Call_retrieve_shipment_info
    \/ Call_get_post_tariff
    \/ Call_get_delivery_days
    \/ Forget

Spec == Init /\ [][Next]_vars

(***************************************************************************)
(* The properties.                                                         *)
(***************************************************************************)
Returned == outcome.kind = "return"
Raised == outcome.kind = "raise"

\* the envelope the transport primitive gave the call that posted
Transport == request(posts[1].url, posts[1].data, net).out.val

\* the parsed document the provider sent
Sent == net.body.doc

ShipmentOps == {"create_shipment", "calculate_shipment_price", "validate_shipment"}
ByCityOps == {"get_streets_by_city", "get_offices_by_city", "get_quarters_by_post_code"}
FacadeOps ==
    {"validate_address", "register", "retrieve_profile", "get_offices", "cancel_shipment",
     "get_streets", "get_cities", "get_streets_by_city", "get_offices_by_city",
     "get_countries", "get_seller_addresses", "get_quarters", "get_quarters_by_post_code",
     "get_regions", "get_zones", "create_shipment", "calculate_shipment_price",
     "validate_shipment", "get_clients", "validate_cd_agreement", "get_postboxes",
     "retrieve_shipment_info", "get_post_tariff", "get_delivery_days"}

\* C1: every returned envelope has status OK iff its data is non-null; only a
\* shipment-building operation may return null data otherwise.
C1_StatusOkIffData ==
    Returned =>
        \/ (outcome.val.status = STATUS_OK <=> outcome.val.data # None)
        \/ (call.op \in ShipmentOps /\ outcome.val.data = None)

\* request was called with a non-empty document
RequestCalled == call.op = "request" /\ Truthy(call.args[2])

MalformedUrl(url) == ~url.parses \/ (url.scheme \in {"http", "https"} /\ url.host = "")
NoSchemeUrl(url) == url.parses /\ url.scheme = ""
HttpUrl(url) == url.parses /\ url.scheme \in {"http", "https"} /\ url.host # ""

Failed(status) == Returned /\ outcome.val.status = status /\ outcome.val.data = None

\* C2: request with a non-empty document gives INVALID_URL for a malformed URL,
\* EMPTY_URL for a URL without a scheme, CONNECTION_ERROR for a connection
\* failure and PARSE_ERROR for a body that is not well-formed XML, each with
\* null data.
C2_ErrorClassification ==
    RequestCalled =>
        /\ MalformedUrl(call.args[1]) => Failed(INVALID_URL_ERROR)
        /\ NoSchemeUrl(call.args[1]) => Failed(EMPTY_URL_ERROR)
        /\ HttpUrl(call.args[1]) /\ net.k = "ConnectionError" => Failed(CONNECTION_ERROR)
        /\ HttpUrl(call.args[1]) /\ net.k = "response" /\ ~net.body.wellformed
               => Failed(XML_PARSE_ERROR)

C2_Witness ==
    /\ RequestCalled
    /\ HttpUrl(call.args[1])
    /\ net.k = "response"
    /\ ~net.body.wellformed
    /\ Failed(XML_PARSE_ERROR)
    /\ Len(posts) = 1

\* request parsed a body that holds the provider's error marker
MarkerParsed ==
    /\ RequestCalled
    /\ HttpUrl(call.args[1])
    /\ net.k = "response"
    /\ net.body.wellformed
    /\ net.body.marker

\* C3: when the body request parsed holds the error marker, the envelope has
\* status API_ERROR and null data; its message is the error text when that is
\* directly present, and the unwrapped text when it is wrapped in a message
\* element.
C3_ApiError ==
    MarkerParsed =>
        /\ Failed(ECONT_API_XML_ERROR)
        /\ \A e \in ErrorTexts :
               /\ Sent = Resp(D2("error", Str(e), "error_code", Str("API_ERR")))
                      => outcome.val.message = Str(e)
               /\ Sent = Resp(D1("error", D2("code", Str("API_ERR"), "message", Str(e))))
                      => outcome.val.message = Str(e)

\* C4: request with a non-empty document always returns an envelope, whatever
\* the URL and the outcome of the exchange; a failure no clause classifies
\* gives UNEXPECTED_ERROR.
C4_NeverPropagates ==
    RequestCalled =>
        /\ Returned
        /\ outcome.val.status \in STATUS_OK..UNEXPECTED_ERROR
        /\ HttpUrl(call.args[1]) /\ net.k \in {"ReadTimeout", "OSError"}
               => Failed(UNEXPECTED_ERROR)
        /\ call.args[1].parses /\ call.args[1].scheme \notin {"", "http", "https"}
               => Failed(UNEXPECTED_ERROR)

C4_Witness ==
    /\ RequestCalled
    /\ HttpUrl(call.args[1])
    /\ net.k = "ReadTimeout"
    /\ Failed(UNEXPECTED_ERROR)

\* C5: request with an empty document raises an input-validation failure and
\* attempts no POST.
C5_EmptyDocument ==
    call.op = "request" /\ ~Truthy(call.args[2]) =>
        /\ Raised
        /\ outcome.val = "ValueError"
        /\ posts = <<>>

C5_Witness ==
    /\ call.op = "request"
    /\ call.args[2] = Str("")
    /\ Raised
    /\ posts = <<>>

\* C6: a facade operation whose transport call gave a non-OK envelope returns
\* that envelope (same status and message, null data) and does not raise.
C6_NonOkPassedOn ==
    call.op \in FacadeOps /\ Len(posts) = 1 /\ Transport.status # STATUS_OK =>
        /\ Returned
        /\ outcome.val.status = Transport.status
        /\ outcome.val.message = Transport.message
        /\ outcome.val.data = None

\* the e value of the by-city operation's wrapper in the document sent
SentEntries ==
    CASE call.op = "get_streets_by_city" ->
           GetItem(GetItem(GetItem(Sent, "response"), "cities_street"), "e")
      [] call.op = "get_offices_by_city" ->
           GetItem(GetItem(GetItem(Sent, "response"), "offices"), "e")
      [] call.op = "get_quarters_by_post_code" ->
           GetItem(GetItem(GetItem(Sent, "response"), "cities_quarters"), "e")

\* the field of an entry a by-city operation compares
FilterKey ==
    IF call.op = "get_offices_by_city" THEN "post_code" ELSE "city_post_code"

\* a by-city operation got an OK transport envelope
ByCityOk ==
    /\ call.op \in ByCityOps
    /\ Len(posts) = 1
    /\ Transport.status = STATUS_OK

\* the entries of the list xs whose field key is the str of the post code
Matching(xs, key, post_code) ==
    SelectSeq(xs, LAMBDA x : x.t = "dict" /\ HasKey(x, key)
                             /\ PyEq(Lookup(x, key), PyStr(post_code)))

\* the list in the data a by-city operation returned
ReturnedList == outcome.val.data.v[1][2]

\* C7 as stated: each by-city lookup returns exactly the entries whose
\* city_post_code equals the post code, in their order.
C7_FilterByCityPostCode ==
    ByCityOk /\ SentEntries.t = "list" =>
        /\ Returned
        /\ ReturnedList = List(Matching(SentEntries.v, "city_post_code", call.args[1]))

\* C7, amended: the streets and quarters lookups return exactly the entries
\* whose city_post_code equals the post code (as a str), the offices lookup
\* exactly those whose post_code equals it, in their order, for every response
\* listing several entries that carry that field.
C7_FilterByOwnKey ==
    /\ ByCityOk
    /\ SentEntries.t = "list"
    /\ \A i \in 1..Len(SentEntries.v) :
           SentEntries.v[i].t = "dict" /\ HasKey(SentEntries.v[i], FilterKey)
    => /\ Returned
       /\ outcome.val.status = STATUS_OK
       /\ ReturnedList = List(Matching(SentEntries.v, FilterKey, call.args[1]))

C7_Witness ==
    /\ call.op = "get_offices_by_city"
    /\ call.args[1] = PyInt(1407)
    /\ ByCityOk
    /\ SentEntries.t = "list"
    /\ Len(SentEntries.v) = 3
    /\ Returned
    /\ Len(ReturnedList.v) = 1

\* C8: a by-city operation given one bare entry treats it as a one-element
\* list: it returns the list holding the entry if it matches, else the empty
\* list.
C8_SingleEntry ==
    ByCityOk /\ SentEntries.t = "dict" /\ HasKey(SentEntries, FilterKey) =>
        /\ Returned
        /\ ReturnedList = List(Matching(<<SentEntries>>, FilterKey, call.args[1]))

\* a shipment operation got an OK transport envelope for a result with a
\* non-empty error
ShipmentError ==
    /\ call.op \in ShipmentOps
    /\ Len(posts) = 1
    /\ Transport.status = STATUS_OK
    /\ ~IsExc(GetItem(GetItem(GetItem(GetItem(Sent, "response"), "result"), "e"), "error"))
    /\ Truthy(GetItem(GetItem(GetItem(GetItem(Sent, "response"), "result"), "e"), "error"))

SentResult == GetItem(GetItem(Sent, "response"), "result")

\* C9 as stated: in every shipment mode a non-empty error of the result gives
\* API_ERROR, null data and the error text as message.
C9_EmbeddedError ==
    ShipmentError =>
        /\ Failed(ECONT_API_XML_ERROR)
        /\ outcome.val.message = GetItem(GetItem(SentResult, "e"), "error")

\* C9, amended: in every shipment mode a non-empty error of the result gives
\* API_ERROR and null data; the message is the error text, unless an
\* error_email was given and the result holds a message field, and then it is
\* that field.
C9_EmbeddedErrorOrMessage ==
    ShipmentError =>
        /\ Failed(ECONT_API_XML_ERROR)
        /\ outcome.val.message =
               IF Truthy(call.args[2]) /\ HasKey(SentResult, "message")
               THEN GetItem(SentResult, "message")
               ELSE GetItem(GetItem(SentResult, "e"), "error")

C9_Witness ==
    /\ ShipmentError
    /\ call.op = "validate_shipment"
    /\ ~Truthy(call.args[2])
    /\ Failed(ECONT_API_XML_ERROR)
    /\ outcome.val.message = Str("Invalid receiver")

\* the valid dates of the years the date arguments lie in
Calendar ==
    {<<y, m, d>> \in (2027..2028) \X (1..12) \X (1..31) : d <= DaysInMonth(y, m)}

\* 2028-01-01 is a Saturday
IsSaturday(date) == (ToOrdinal(date) - ToOrdinal(<<2028, 1, 1>>)) % 7 = 0

\* the date days calendar days after date
DaysLater(date, days) ==
    CHOOSE later \in Calendar : ToOrdinal(later) = ToOrdinal(date) + days

\* get_delivery_days got an OK transport envelope listing no delivery days
NoDeliveryDays ==
    /\ call.op = "get_delivery_days"
    /\ Len(posts) = 1
    /\ Transport.status = STATUS_OK
    /\ ~IsExc(GetItem(GetItem(Sent, "response"), "delivery_days"))
    /\ ~Truthy(GetItem(GetItem(Sent, "response"), "delivery_days"))

\* C10: get_delivery_days, given no delivery days, returns the one-element
\* list of the next working day: two calendar days after a Saturday, one
\* calendar day after any other day.
C10_NextWorkingDay ==
    NoDeliveryDays =>
        /\ Returned
        /\ outcome.val.status = STATUS_OK
        /\ outcome.val.data =
               D1("delivery_days",
                  List(<<DateStr(DaysLater(call.args[1].v,
                                           IF IsSaturday(call.args[1].v) THEN 2 ELSE 1))>>))

C10_Witness ==
    /\ NoDeliveryDays
    /\ call.args[1] = DateText(2028, 4, 29)
    /\ Returned
    /\ outcome.val.data = D1("delivery_days", List(<<Str("2028-05-01")>>))

\* a facade operation was called with arguments its validation rejects
InvalidArguments ==
    \/ call.op \in ByCityOps /\ ~Truthy(call.args[1])
    \/ call.op = "get_delivery_days" /\ IsExc(strptime(call.args[1]))
    \/ call.op = "get_postboxes" /\ Truthy(call.args[2]) /\ ~Truthy(call.args[1])

\* C11: an empty post code in a by-city lookup, a malformed date in the
\* delivery-days lookup and a quarter name without a city name in the postbox
\* listing are raised to the caller, not returned as an envelope, and the call
\* has issued no POST.
C11_ValidationRaises ==
    InvalidArguments =>
        /\ Raised
        /\ outcome.val = "ValueError"
        /\ posts = <<>>

C11_Witness ==
    /\ call.op = "get_postboxes"
    /\ call.args = <<Str(""), Str("Lozenets")>>
    /\ Raised
    /\ posts = <<>>

\* C12: the session a call of request opens is closed when the call ends, on
\* every exit path, the raise for an empty document included.
C12_SessionClosed ==
    call.op = "request" => opened = 1 /\ closed = opened

\* a facade operation was called with arguments that pass its validation
\* and hold every field the operation reads
ValidArguments ==
    /\ call.op \in FacadeOps
    /\ ~InvalidArguments
    /\ call.op = "get_delivery_days" => validate_date(call.args[1], call.args[2]) = None
    /\ call.op \in ShipmentOps => HasKey(call.args[1], "side")

\* C13: a call of request with a non-empty document, and a facade operation
\* called with valid arguments, issues exactly one POST and returns one
\* envelope.
C13_OnePostOneEnvelope ==
    (RequestCalled \/ ValidArguments) =>
        /\ Len(posts) = 1
        /\ Returned

\* the service and parcels endpoints the demo/production flag selects
FlagServiceUrl == IF client.demo THEN ECONT_SERVICE_DEMO_URL ELSE ECONT_SERVICE_URL
FlagParcelsUrl == IF client.demo THEN ECONT_PARCELS_DEMO_URL ELSE ECONT_PARCELS_URL

\* a facade operation has posted its request
FacadePosted == call.op \in FacadeOps /\ Len(posts) = 1

\* C14: every operation posts to the endpoint the demo/production flag
\* selects: the three shipment modes to the parcels URL of that flag, every
\* other operation to its service URL.
C14_EndpointByFlag ==
    FacadePosted =>
        posts[1].url = IF call.op \in ShipmentOps THEN FlagParcelsUrl ELSE FlagServiceUrl

\* C14, amended: the same, except that the post tariff retrieval posts to the
\* production service URL on a demo client as well.
C14_EndpointByFlagButTariff ==
    FacadePosted =>
        posts[1].url = IF call.op = "get_post_tariff" THEN ECONT_SERVICE_URL
                       ELSE IF call.op \in ShipmentOps THEN FlagParcelsUrl
                       ELSE FlagServiceUrl

C14_Witness ==
    /\ call.op = "get_post_tariff"
    /\ client.demo
    /\ Len(posts) = 1
    /\ posts[1].url = ECONT_SERVICE_URL

\* request was called with the empty URL
EmptyUrlCalled == call.op = "request" /\ call.args[1].text = ""

\* C15: request called with an empty URL raises to its caller instead of
\* returning an envelope, and has posted nothing.
C15_EmptyUrlRaises ==
    EmptyUrlCalled => Raised /\ posts = <<>>

\* C15, amended: request called with an empty URL and a non-empty document
\* returns the EMPTY_URL envelope with null data, whatever the network would
\* have answered.
C15_EmptyUrlEnvelope ==
    (EmptyUrlCalled /\ RequestCalled) =>
        /\ Failed(EMPTY_URL_ERROR)
        /\ \A n \in Nets : request(call.args[1], call.args[2], n).out = outcome

C15_Witness ==
    /\ EmptyUrlCalled
    /\ RequestCalled
    /\ net.k = "response"
    /\ Failed(EMPTY_URL_ERROR)

\* the request document a call posted, as the mapping it was built from
PostedData == posts[1].data.v[2]

\* the posted document of a facade operation holds the client's credentials
CredentialsPosted ==
    FacadePosted =>
        /\ HasKey(PostedData, "client")
        /\ Lookup(PostedData, "client") =
               Dict(<< <<"username", Str(client.username)>>,
                       <<"password", Str(client.password)>> >>)

\* C16: no operation changes the client's credentials or endpoint URLs, and
\* the document a facade operation posts holds a client entry with exactly the
\* username and password given at construction.
C16_CredentialsFrame ==
    [][client' = client /\ CredentialsPosted']_vars

C16_Witness ==
    /\ call.op = "retrieve_shipment_info"
    /\ call.args[2] = TRUE
    /\ Len(posts) = 1
    /\ Lookup(PostedData, "client") =
           Dict(<< <<"username", Str("iasp-dev")>>, <<"password", Str("secret")>> >>)
    /\ client = Econt("iasp-dev", "secret", TRUE)

\* a shipment-building operation creates the shipment: neither validate nor
\* only_calculate is set
CreateMode == call.op = "create_shipment"

\* a shipment-building operation got an OK response whose result holds the
\* error and error_code fields with no error in them, with no message that an
\* error_email turns into an error, and with the pdf a creation reads
ShipmentClean ==
    /\ call.op \in ShipmentOps
    /\ Len(posts) = 1
    /\ Transport.status = STATUS_OK
    /\ ~IsExc(GetItem(SentResult, "e"))
    /\ HasKey(GetItem(SentResult, "e"), "error")
    /\ HasKey(GetItem(SentResult, "e"), "error_code")
    /\ ~Truthy(GetItem(GetItem(SentResult, "e"), "error"))
    /\ ~(Truthy(call.args[2]) /\ HasKey(SentResult, "message"))
    /\ CreateMode => HasKey(GetItem(Sent, "response"), "pdf")

MarkerUnparsed ==
    /\ RequestCalled
    /\ HttpUrl(call.args[1])
    /\ net.k = "response"
    /\ ~net.body.wellformed
    /\ net.body.marker

\* C18: a body that is not well-formed gives PARSE_ERROR even when it holds
\* the error marker, and request returns API_ERROR only for a body that it
\* parsed.
C18_ParseBeforeMarker ==
    /\ MarkerUnparsed => Failed(XML_PARSE_ERROR)
    /\ (call.op = "request" /\ Returned /\ outcome.val.status = ECONT_API_XML_ERROR) =>
           net.k = "response" /\ net.body.wellformed

C18_Witness ==
    /\ MarkerUnparsed
    /\ Failed(XML_PARSE_ERROR)
    /\ Len(posts) = 1

\* a shipment-building operation got an OK response whose result holds a
\* message field
ShipmentMessage ==
    /\ call.op \in ShipmentOps
    /\ Len(posts) = 1
    /\ Transport.status = STATUS_OK
    /\ SentResult.t = "dict"
    /\ HasKey(SentResult, "message")

\* C19: with an error_email, a message field of the result makes the envelope
\* API_ERROR with null data and that field as message, whether or not the
\* result holds an error; without an error_email the message field does not:
\* an API_ERROR envelope then carries the non-empty error of the result.
C19_MessageOverride ==
    ShipmentMessage =>
        IF Truthy(call.args[2])
        THEN /\ Failed(ECONT_API_XML_ERROR)
             /\ outcome.val.message = GetItem(SentResult, "message")
        ELSE (Returned /\ outcome.val.status = ECONT_API_XML_ERROR) =>
                 /\ HasKey(SentResult, "e")
                 /\ Truthy(GetItem(GetItem(SentResult, "e"), "error"))
                 /\ outcome.val.message = GetItem(GetItem(SentResult, "e"), "error")

C19_Witness ==
    /\ ShipmentMessage
    /\ Truthy(call.args[2])
    /\ HasKey(SentResult, "e")
    /\ GetItem(GetItem(SentResult, "e"), "error") = None
    /\ Failed(ECONT_API_XML_ERROR)
    /\ outcome.val.message = Str("Errors were mailed")

\* the address element of the document the provider sent
SentAddress == GetItem(GetItem(Sent, "response"), "address")

\* validate_address posted its request
AddressPosted == call.op = "validate_address" /\ Len(posts) = 1

\* the transport primitive reported OK and the address is marked invalid
AddressInvalid ==
    /\ Transport.status = STATUS_OK
    /\ ~IsExc(GetItem(SentAddress, "validation_status"))
    /\ GetItem(SentAddress, "validation_status") = Str("invalid")

\* C20: validate_address returns API_ERROR with null data and the address's
\* error text as message when the transport primitive reported OK and the
\* validation status is invalid, and for every other response it returns the
\* envelope of the transport primitive unchanged.
C20_ValidateAddress ==
    AddressPosted =>
        IF AddressInvalid
        THEN /\ Failed(ECONT_API_XML_ERROR)
             /\ outcome.val.message = GetItem(SentAddress, "error")
        ELSE /\ Returned
             /\ outcome.val = Transport

\* the e element under shipments in the document the provider sent
SentShipments == GetItem(GetItem(GetItem(Sent, "response"), "shipments"), "e")

\* the shipment entries the provider returned, as a flat list
ShipmentsReturned ==
    CASE SentShipments.t = "list" -> SentShipments
      [] SentShipments.t = "dict" -> List(<<SentShipments>>)
      [] OTHER -> List(<<>>)

\* C21: whenever retrieve_shipment_info returns OK, data.shipments is the flat
\* list of the shipment entries the provider returned, one element per entry,
\* for every number of requested ids and of returned entries.
C21_FlatShipments ==
    (call.op = "retrieve_shipment_info" /\ Returned /\ outcome.val.status = STATUS_OK) =>
        outcome.val.data = D1("shipments", ShipmentsReturned)

====
